---- MODULE Spec2Model ----
(***************************************************************************)
(* A model of curio_http (src/curio_http/__init__.py): the request         *)
(* builder _prepare_request, Response, HTTPConnection and ClientSession.   *)
(*                                                                         *)
(* Three specifications share the variables:                               *)
(*   SpecPrepare  _prepare_request applied to bounded inputs               *)
(*   Spec         one ClientSession scope: request, redirect loop, exit    *)
(*   SpecBody     draining the body of a received response                 *)
(***************************************************************************)
EXTENDS Integers, Sequences, FiniteSets, TLC

VARIABLES
    pc,                 \* position of the task in the code
    call,               \* arguments of the call in progress
    prepared,           \* value returned by _prepare_request
    frame,              \* ClientSession._request: its `url` and `conn`; __aexit__: its index
    url,                \* ClientSession.request: local `url`
    new_url,            \* ClientSession.request: local `new_url` of the last hop
    response,           \* ClientSession.request: local `response`
    history,            \* ClientSession.request: local `history`
    open_connections,   \* ClientSession.open_connections (ids into conns)
    conns,              \* every HTTPConnection object created so far
    exc,                \* the exception propagating out of the task, if any
    server,             \* behaviour of the peer
    drain               \* state of the body consumers

vars == <<pc, call, prepared, frame, url, new_url, response, history,
          open_connections, conns, exc, server, drain>>

----------------------------------------------------------------------------
(* Python values *)

\* Python's None and a present value: an optional is a sequence of length 0 or 1
None == <<>>
Some(x) == <<x>>
IsNone(o) == Len(o) = 0
Get(o) == o[1]

\* all sequences over S of length at most n
SeqUpTo(S, n) == UNION {[1..k -> S] : k \in 0..n}

RECURSIVE Concat(_)
\* b''.join(chunks): the concatenation of a sequence of sequences
Concat(ss) == IF ss = <<>> THEN <<>> ELSE Head(ss) \o Concat(Tail(ss))

----------------------------------------------------------------------------
(* Bounds of the model *)

MaxQuery == 2       \* query entries already in the URL
MaxParams == 2      \* entries of the params dict
MaxData == 2        \* characters of the request body
MaxRequests == 3    \* requests one call of ClientSession.request may issue
MaxBody == 4        \* bytes of a response body

----------------------------------------------------------------------------
(* yarl.URL: scheme, host, path and the raw query string, as tokens *)

Keys == {"set", "k"}
Values == {"via_url", "via_params"}
Pairs == Keys \X Values

RECURSIVE RenderQuery(_)
\* the query string of a sequence of pairs: k=v&k=v...
RenderQuery(pairs) ==
    IF pairs = <<>> THEN <<>>
    ELSE <<Head(pairs)[1], "=", Head(pairs)[2]>>
         \o (IF Tail(pairs) = <<>> THEN <<>> ELSE <<"&">>)
         \o RenderQuery(Tail(pairs))

RECURSIVE ParseQuery(_)
\* url.query: the ordered multi-map parsed from a raw query string
ParseQuery(toks) ==
    IF Len(toks) < 3 THEN <<>>
    ELSE <<<<toks[1], toks[3]>>>>
         \o (IF Len(toks) > 4 THEN ParseQuery(SubSeq(toks, 5, Len(toks))) ELSE <<>>)

\* yarl.URL(string)
URL(scheme, host, path, raw_query) ==
    [scheme |-> scheme, host |-> host, path |-> path, raw_query |-> raw_query,
     rooted |-> TRUE]

\* yarl.URL(string) of a relative reference: no scheme, no host; rooted is
\* whether the path starts with "/"
Ref(path, rooted) ==
    [scheme |-> "", host |-> "", path |-> path, raw_query |-> <<>>, rooted |-> rooted]

\* path[:-1]: a path without its last segment
DirOf(path) == IF path = <<>> THEN <<>> ELSE SubSeq(path, 1, Len(path) - 1)

\* base.join(ref): RFC 3986 resolution of ref against base
join(base, ref) ==
    IF ref.scheme # "" THEN ref
    ELSE IF ref.host # "" THEN [ref EXCEPT !.scheme = base.scheme]
    ELSE IF ref.rooted THEN [base EXCEPT !.path = ref.path, !.raw_query = ref.raw_query]
    ELSE IF ref.path = <<>>
         THEN [base EXCEPT !.raw_query =
                   IF ref.raw_query = <<>> THEN base.raw_query ELSE ref.raw_query]
    ELSE [base EXCEPT !.path = DirOf(base.path) \o ref.path,
                      !.raw_query = ref.raw_query]

\* url.query.items()
query_items(u) == ParseQuery(u.raw_query)

\* url.with_query(query_vars)
with_query(u, query_vars) == [u EXCEPT !.raw_query = RenderQuery(query_vars)]

RECURSIVE RenderPath(_)
\* the path /seg/seg of a sequence of segments
RenderPath(path) ==
    IF path = <<>> THEN <<>> ELSE <<"/", Head(path)>> \o RenderPath(Tail(path))

\* str(url.relative()): path and query, without scheme and host
relative_str(u) ==
    (IF u.path = <<>> THEN <<"/">> ELSE RenderPath(u.path))
    \o (IF u.raw_query = <<>> THEN <<>> ELSE <<"?">> \o u.raw_query)

\* url.port: the scheme's default
port(u) == IF u.scheme = "https" THEN 443 ELSE 80

----------------------------------------------------------------------------
(* str and bytes *)

Chars == {"a", "e_acute"}

\* one character's UTF-8 encoding
Utf8Char(c) == IF c = "a" THEN <<97>> ELSE <<195, 169>>

\* data.encode('utf-8')
encode_utf8(s) == Concat([i \in 1..Len(s) |-> Utf8Char(s[i])])

----------------------------------------------------------------------------
(* dict: insertion-ordered, unique keys *)

\* key in d
dict_has(d, key) == \E i \in 1..Len(d) : d[i][1] = key

\* d[key] = value: replaces in place or appends
dict_set(d, key, value) ==
    IF dict_has(d, key)
    THEN [i \in 1..Len(d) |-> IF d[i][1] = key THEN <<key, value>> ELSE d[i]]
    ELSE Append(d, <<key, value>>)

\* d.setdefault(key, value)
dict_setdefault(d, key, value) ==
    IF dict_has(d, key) THEN d ELSE Append(d, <<key, value>>)

\* whether a sequence of pairs is a dict (no key twice)
IsDict(d) == \A i, j \in 1..Len(d) : d[i][1] = d[j][1] => i = j

----------------------------------------------------------------------------
(* _prepare_request *)

\* lines 225-227 with the operands of + exchanged
merged_query_params_first(u, params) ==
    IF params # <<>> THEN with_query(u, params \o query_items(u)) ELSE u

\* lines 225-227: the URL with params appended to its query
merged_query(u, params) ==
    IF params # <<>> THEN with_query(u, query_items(u) \o params) ELSE u

\* _prepare_request(method, url, params, headers, data) -> (h11_request, body)
\* params is <<>> for None or {}; headers and data are optionals
_prepare_request(method, u, params, headers, data) ==
    LET u2 == merged_query(u, params)
        target == relative_str(u2)
        h0 == IF IsNone(headers) THEN <<>> ELSE Get(headers)
        h1 == dict_setdefault(h0, "Host", u2.host)
        h2 == IF ~IsNone(data) /\ ~dict_has(h1, "Transfer-Encoding")
              THEN dict_set(h1, "Content-Length", Len(Get(data)))
              ELSE h1
    IN  [h11_request |-> [method |-> method, target |-> target, headers |-> h2],
         body |-> IF ~IsNone(data) THEN Some(encode_utf8(Get(data))) ELSE None]

----------------------------------------------------------------------------
(* SpecPrepare: _prepare_request on bounded inputs *)

PrepareURLs ==
    {URL("http", "example.com", <<"path">>, RenderQuery(q)) : q \in SeqUpTo(Pairs, MaxQuery)}

PrepareParams == {p \in SeqUpTo(Pairs, MaxParams) : IsDict(p)}

PrepareHeaders ==
    {None, Some(<<>>), Some(<<<<"Host", "other">>>>),
     Some(<<<<"Transfer-Encoding", "chunked">>>>)}

PrepareData == {None} \cup {Some(s) : s \in SeqUpTo(Chars, MaxData)}

NoCall == [method |-> "GET", url |-> URL("http", "example.com", <<>>, <<>>),
           params |-> <<>>, headers |-> None, data |-> None,
           allow_redirects |-> FALSE]

InitPrepare ==
    /\ pc = "prepare"
    /\ call \in [method : {"GET", "POST"}, url : PrepareURLs, params : PrepareParams,
                 headers : PrepareHeaders, data : PrepareData,
                 allow_redirects : {FALSE}]
    /\ prepared = None /\ frame = None
    /\ url = None /\ new_url = None /\ response = None /\ history = None
    /\ open_connections = <<>> /\ conns = <<>> /\ exc = None
    /\ server = "none" /\ drain = None

\* the call of _prepare_request
Prepare ==
    /\ pc = "prepare"
    /\ prepared' = Some(_prepare_request(call.method, call.url, call.params,
                                         call.headers, call.data))
    /\ pc' = "prepared"
    /\ UNCHANGED <<call, frame, url, new_url, response, history, open_connections,
                   conns, exc, server, drain>>

NextPrepare == Prepare

SpecPrepare == InitPrepare /\ [][NextPrepare]_vars

----------------------------------------------------------------------------
(* C1 *)

\* the query part of a target: the tokens after "?"
TargetQuery(target) ==
    IF \E i \in 1..Len(target) : target[i] = "?"
    THEN LET i == CHOOSE i \in 1..Len(target) : target[i] = "?"
         IN  ParseQuery(SubSeq(target, i + 1, Len(target)))
    ELSE <<>>

\* C1: for every URL U and non-empty parameter map P, the target built by
\* _prepare_request has as its query exactly U's query entries in their
\* order followed by P's entries in P's order, nothing dropped,
\* deduplicated or reordered, also when a key of P already occurs in U.
C1_ParamsAppended ==
    (pc = "prepared" /\ call.params # <<>>) =>
        TargetQuery(Get(prepared).h11_request.target)
            = query_items(call.url) \o call.params

\* the scenario of test_params: ?set=via_url with params {set: via_params}
C1_Witness ==
    /\ pc = "prepared"
    /\ query_items(call.url) = <<<<"set", "via_url">>>>
    /\ call.params = <<<<"set", "via_params">>>>
    /\ Get(prepared).h11_request.target
         = <<"/", "path", "?", "set", "=", "via_url", "&", "set", "=", "via_params">>

----------------------------------------------------------------------------
(* h11: header names and events *)

\* h11 normalises the header names of a received event to lower case
h11_lower(name) ==
    CASE name \in {"Location", "LOCATION", "location"} -> "location"
      [] name \in {"Content-Type", "content-type"} -> "content-type"
      [] OTHER -> name

\* the h11.Response event decoded from what the peer sent
h11_Response(wire) ==
    [status_code |-> wire.status_code,
     http_version |-> "1.1",
     headers |-> [i \in 1..Len(wire.headers) |->
                    <<h11_lower(wire.headers[i][1]), wire.headers[i][2]>>]]

----------------------------------------------------------------------------
(* Response *)

RECURSIVE dict_from(_)
\* {key: value for key, value in pairs}: a later pair replaces an earlier one
dict_from(pairs) ==
    IF pairs = <<>> THEN <<>>
    ELSE LET last == pairs[Len(pairs)]
         IN  dict_set(dict_from(SubSeq(pairs, 1, Len(pairs) - 1)), last[1], last[2])

\* d[key]
dict_get(d, key) == d[CHOOSE i \in 1..Len(d) : d[i][1] = key][2]

\* Response.__init__(raw_response, h11_request, conn)
Response(raw_response, h11_request, conn) ==
    [status_code |-> raw_response.status_code,
     http_version |-> raw_response.http_version,
     headers |-> dict_from(raw_response.headers),
     h11_request |-> h11_request,
     conn |-> conn,
     history |-> None]

\* Response.is_redirect with the lower end of the range at 300
is_redirect_from_300(r) ==
    dict_has(r.headers, "location") /\ 300 <= r.status_code /\ r.status_code < 400

\* Response.is_redirect
is_redirect(r) ==
    dict_has(r.headers, "location") /\ 301 <= r.status_code /\ r.status_code < 400

\* Response.raise_for_status without the branch of lines 97-99
raise_for_status_client_only(r) ==
    IF 400 <= r.status_code /\ r.status_code < 500
    THEN <<[type |-> "HTTPError", msg |-> "Client Error", response |-> <<r>>]>>
    ELSE <<>>

\* Response.raise_for_status: the exception raised, None when it returns
raise_for_status(r) ==
    LET http_error_msg ==
            IF 400 <= r.status_code /\ r.status_code < 500 THEN "Client Error"
            ELSE IF 500 <= r.status_code /\ r.status_code < 600 THEN "Server Error"
            ELSE ""
    IN  IF http_error_msg # ""
        THEN Some([type |-> "HTTPError", msg |-> http_error_msg, response |-> Some(r)])
        ELSE None

\* an exception that carries no response
Error(type) == Some([type |-> type, msg |-> "", response |-> None])

----------------------------------------------------------------------------
(* HTTPConnection *)

\* HTTPConnection.__init__(host, port, ssl): no sock and no state attribute yet
HTTPConnection(host, prt, ssl) ==
    [host |-> host, port |-> prt, ssl |-> ssl,
     sock |-> "unset",          \* "unset", "open" or "None"
     our |-> "unset",           \* h11 state of the client side, "None" after close
     their |-> "unset",         \* h11 state of the server side, "None" after close
     sent |-> <<>>,             \* the events written to the socket, in order
     wire |-> None,             \* the response head the peer sent
     inbox |-> <<>>,            \* body bytes the peer sent, not yet read
     buf |-> <<>>,              \* h11's receive buffer
     length |-> 0,              \* body bytes h11 still expects (Content-Length)
     got |-> <<>>,              \* the events _next_event returned, in order
     peer_closed |-> FALSE,     \* the peer has closed: nothing follows the inbox
     eof |-> FALSE,             \* h11 was fed b"": its receive buffer is closed
     empty_reads |-> 0,         \* the number of reads that returned b""
     close_calls |-> 0]         \* the number of calls of close

\* HTTPConnection.open, the connection established
opened(c) == [c EXCEPT !.sock = "open", !.our = "IDLE", !.their = "IDLE"]

\* lines 173-178 without line 178: the h11 connection object kept
closed_keeps_state(c) == [c EXCEPT !.sock = "None", !.close_calls = @ + 1]

\* HTTPConnection.close, the socket closed
closed(c) == [c EXCEPT !.sock = "None", !.our = "None", !.their = "None",
                       !.close_calls = @ + 1]

\* an h11 event: its type and, for Data, its payload
Event(type, data) == [type |-> type, data |-> data]

\* the response head of the peer decoded by h11: the body announced by its
\* Content-Length is in flight behind it
received_head(c, w, body) ==
    [c EXCEPT !.wire = Some(w), !.their = "SEND_BODY", !.inbox = body,
              !.length = Len(body), !.got = Append(@, Event("Response", <<>>))]

\* HTTPConnection._send(event): h11's state after the event, the bytes written
sent_event(c, event) ==
    [c EXCEPT !.sent = Append(@, event),
              !.our = CASE event = "Request" -> "SEND_BODY"
                        [] event = "EndOfMessage" -> "DONE"
                        [] OTHER -> @,
              !.their = IF event = "Request" THEN "SEND_RESPONSE" ELSE @]

----------------------------------------------------------------------------
(* The peer *)

\* the cap on redirect hops that the specification recommends (section 4.5)
RedirectCap == 20

\* the values of a location header: an absolute URL on another host, an
\* absolute path and a path relative to the current one
Locations == {URL("http", "b.test", <<"d", "p">>, <<>>), Ref(<<"q">>, TRUE), Ref(<<"r">>, FALSE)}

LocationNames == {"Location", "location", "LOCATION"}

Statuses == {200, 300, 301, 399, 400, 499, 500, 599, 600}

\* a response head on the wire
Wire(status, headers) == [status_code |-> status, headers |-> headers]

\* what a peer of each kind may answer to a request:
\*   "chain"   200 or 302, with or without a location of any kind
\*   "status"  any status, the location header spelled in any case
\*   "cycle"   always a redirect to the same path
ServerResponses(mode) ==
    CASE mode = "chain" ->
           {Wire(st, h) : st \in {200, 302},
                          h \in {<<>>} \cup {<<<<"Location", l>>>> : l \in Locations}}
      [] mode = "status" ->
           {Wire(st, h) : st \in Statuses,
                          h \in {<<>>} \cup {<<<<n, Ref(<<"q">>, TRUE)>>>> : n \in LocationNames}}
      [] OTHER -> {Wire(302, <<<<"Location", Ref(<<"q">>, TRUE)>>>>)}

\* the number of requests the model lets one call issue against a peer
RequestBound(mode) == IF mode = "cycle" THEN RedirectCap + 2 ELSE MaxRequests

----------------------------------------------------------------------------
(* ClientSession *)

StartURLs ==
    {URL("http", "a.test", <<"x", "y">>, <<>>),
     URL("https", "a.test", <<"z">>, RenderQuery(<<<<"k", "via_url">>>>))}

\* session.get(url), session.request('GET', url), session.post(url, data='a')
\* and session.post(url, data='a', allow_redirects=True)
Calls ==
    {[method |-> "GET", url |-> u, params |-> <<>>, headers |-> None,
      data |-> None, allow_redirects |-> a] : u \in StartURLs, a \in BOOLEAN}
    \cup
    {[method |-> "POST", url |-> u, params |-> <<>>, headers |-> None,
      data |-> Some(<<"a">>), allow_redirects |-> a] : u \in StartURLs, a \in BOOLEAN}

\* ClientSession.__init__ and __aenter__: the scope entered, no connection
Init ==
    /\ pc = "scope"
    /\ call = NoCall
    /\ prepared = None /\ frame = None
    /\ url = None /\ new_url = None /\ response = None /\ history = None
    /\ open_connections = <<>> /\ conns = <<>> /\ exc = None
    /\ server \in {"chain", "status", "cycle"}
    /\ drain = None

\* ClientSession._request, lines 266-273: the request prepared and the
\* HTTPConnection object created
begin_request(method, u, params, headers, data) ==
    /\ prepared' = Some(_prepare_request(method, u, params, headers, data))
    /\ conns' = Append(conns, HTTPConnection(u.host, port(u), u.scheme = "https"))
    /\ frame' = Some([url |-> u, conn |-> Len(conns) + 1])
    /\ pc' = "open"

\* ClientSession.request, lines 286-288: url = yarl.URL(url) and the first _request
CallRequest ==
    /\ pc = "scope"
    /\ \E c \in Calls :
         /\ call' = c
         /\ url' = Some(c.url)
         /\ begin_request(c.method, c.url, c.params, c.headers, c.data)
    /\ UNCHANGED <<new_url, response, history, open_connections, exc, server, drain>>

\* line 277 with only the first connection of the session kept
tracked_first(oc, c) == IF oc = <<>> THEN <<c>> ELSE oc

\* ClientSession._request, line 277: self.open_connections.append(conn)
tracked(oc, c) == Append(oc, c)

\* ClientSession._request, lines 275-277: await conn.open(), then the append
Open ==
    /\ pc = "open"
    /\ LET c == Get(frame).conn
       IN  \/ /\ conns' = [conns EXCEPT ![c] = opened(@)]
              /\ open_connections' = tracked(open_connections, c)
              /\ pc' = "send_request"
              /\ exc' = exc
              /\ frame' = frame
           \/ /\ exc' = Error("OSError")
              /\ pc' = "aexit"
              /\ frame' = Some([i |-> 1])
              /\ UNCHANGED <<conns, open_connections>>
    /\ UNCHANGED <<call, prepared, url, new_url, response, history, server, drain>>

\* lines 203-210 with the Data event sent whether or not there is a body
after_send_always_data(position, body) ==
    CASE position = "send_request" -> "send_data"
      [] position = "send_data" -> "send_eom"
      [] OTHER -> "next_event"

\* HTTPConnection.request, lines 203-210: the step after each _send; the
\* Data event is sent only if data is not None
after_send(position, body) ==
    CASE position = "send_request" -> IF ~IsNone(body) THEN "send_data" ELSE "send_eom"
      [] position = "send_data" -> "send_eom"
      [] OTHER -> "next_event"

\* HTTPConnection.request, line 203: await self._send(h11_request)
SendRequest ==
    /\ pc = "send_request"
    /\ conns' = [conns EXCEPT ![Get(frame).conn] = sent_event(@, "Request")]
    /\ pc' = after_send(pc, Get(prepared).body)
    /\ UNCHANGED <<call, prepared, frame, url, new_url, response, history,
                   open_connections, exc, server, drain>>

\* HTTPConnection.request, lines 205-206: await self._send(h11.Data(data=data))
SendData ==
    /\ pc = "send_data"
    /\ conns' = [conns EXCEPT ![Get(frame).conn] = sent_event(@, "Data")]
    /\ pc' = after_send(pc, Get(prepared).body)
    /\ UNCHANGED <<call, prepared, frame, url, new_url, response, history,
                   open_connections, exc, server, drain>>

\* HTTPConnection.request, line 208: await self._send(h11.EndOfMessage())
SendEndOfMessage ==
    /\ pc = "send_eom"
    /\ conns' = [conns EXCEPT ![Get(frame).conn] = sent_event(@, "EndOfMessage")]
    /\ pc' = after_send(pc, Get(prepared).body)
    /\ UNCHANGED <<call, prepared, frame, url, new_url, response, history,
                   open_connections, exc, server, drain>>

\* HTTPConnection.request, lines 210-214, and ClientSession._request, line 281:
\* the response head read from the socket, decoded and wrapped in a Response
ReceiveResponse ==
    /\ pc = "next_event"
    /\ \E w \in ServerResponses(server) :
         LET c == Get(frame).conn
         IN  /\ conns' = [conns EXCEPT ![c] = received_head(@, w, <<>>)]
             /\ response' = Some(Response(h11_Response(w), Get(prepared).h11_request, c))
    /\ pc' = "after_request"
    /\ UNCHANGED <<call, prepared, frame, url, new_url, history, open_connections,
                   exc, server, drain>>

\* HTTPConnection._send, lines 182-184, when sock.sendall raises: h11 has
\* encoded the event, no byte of it counts as written
send_failed(c, event) == [sent_event(c, event) EXCEPT !.sent = c.sent]

\* the event that HTTPConnection.request sends at a position
EventAt(position) ==
    CASE position = "send_request" -> "Request"
      [] position = "send_data" -> "Data"
      [] OTHER -> "EndOfMessage"

\* HTTPConnection._send, line 184: sock.sendall raises; nothing catches the
\* exception before the end of the scope
SendFails ==
    /\ pc \in {"send_request", "send_data", "send_eom"}
    /\ conns' = [conns EXCEPT ![Get(frame).conn] = send_failed(@, EventAt(pc))]
    /\ exc' = Error("OSError")
    /\ pc' = "aexit"
    /\ frame' = Some([i |-> 1])
    /\ UNCHANGED <<call, prepared, url, new_url, response, history,
                   open_connections, server, drain>>

\* HTTPConnection.request, line 210: _next_event raises before a response
\* head is decoded: sock.recv raises OSError, or the peer has closed and h11
\* raises RemoteProtocolError
ReceiveFails ==
    /\ pc = "next_event"
    /\ \E type \in {"OSError", "RemoteProtocolError"} :
         /\ exc' = Error(type)
         /\ conns' = [conns EXCEPT ![Get(frame).conn].their =
                         IF type = "RemoteProtocolError" THEN "ERROR" ELSE @]
    /\ pc' = "aexit"
    /\ frame' = Some([i |-> 1])
    /\ UNCHANGED <<call, prepared, url, new_url, response, history,
                   open_connections, server, drain>>

\* line 290 with the flag ignored
follows_always(c) == TRUE

\* line 290: if allow_redirects
follows(c) == c.allow_redirects

\* line 294 with the response put in front
history_prepend(h, r) == <<r>> \o h

\* line 294: history.append(response)
history_append(h, r) == Append(h, r)

\* line 297: url.join(yarl.URL(response.headers['location'])), url being the
\* URL that ClientSession.request was called with
resolve_location(original, r) == join(original, dict_get(r.headers, "location"))

\* ClientSession.request, lines 290-299: one turn of the redirect loop
FollowRedirect ==
    /\ pc = "after_request"
    /\ follows(call)
    /\ is_redirect(Get(response))
    /\ Len(conns) < RequestBound(server)
    /\ LET h == IF IsNone(history) THEN <<>> ELSE Get(history)
           n == resolve_location(Get(url), Get(response))
       IN  /\ history' = Some(history_append(h, Get(response)))
           /\ new_url' = Some(n)
           /\ begin_request(call.method, n, <<>>, None, None)
    /\ UNCHANGED <<call, url, response, open_connections, exc, server, drain>>

\* ClientSession.request, lines 290-303: the loop left, the history set, the return
Return ==
    /\ pc = "after_request"
    /\ IF follows(call)
       THEN /\ ~is_redirect(Get(response))
            /\ LET h == IF IsNone(history) THEN <<>> ELSE Get(history)
               IN  /\ history' = Some(h)
                   /\ response' = Some([Get(response) EXCEPT !.history = Some(h)])
       ELSE UNCHANGED <<history, response>>
    /\ pc' = "returned"
    /\ UNCHANGED <<call, prepared, frame, url, new_url, open_connections, conns,
                   exc, server, drain>>

\* the caller's response.raise_for_status() inside the scope
RaiseForStatus ==
    /\ pc = "returned"
    /\ LET e == raise_for_status(Get(response))
       IN  IF IsNone(e)
           THEN pc' = "checked" /\ exc' = exc
           ELSE pc' = "aexit" /\ exc' = e
    /\ frame' = IF IsNone(raise_for_status(Get(response))) THEN frame ELSE Some([i |-> 1])
    /\ UNCHANGED <<call, prepared, url, new_url, response, history,
                   open_connections, conns, server, drain>>

\* the connections the caller reaches from the response returned:
\* response.conn and the conn of every response of response.history
ReachableConns(r) ==
    {r.conn} \cup (IF IsNone(r.history) THEN {}
                   ELSE {Get(r.history)[k].conn : k \in 1..Len(Get(r.history))})

\* the caller's await r.conn.close() inside the scope, r being the response
\* or one of its history
UserClose ==
    /\ pc \in {"returned", "checked"}
    /\ \E c \in ReachableConns(Get(response)) :
         conns' = [conns EXCEPT ![c] = closed(@)]
    /\ pc' = "user_closed"
    /\ UNCHANGED <<call, prepared, frame, url, new_url, response, history,
                   open_connections, exc, server, drain>>

\* the end of the body of `async with`: __aexit__ is entered
ExitScope ==
    /\ pc \in {"returned", "checked", "user_closed"}
    /\ pc' = "aexit"
    /\ frame' = Some([i |-> 1])
    /\ UNCHANGED <<call, prepared, url, new_url, response, history,
                   open_connections, conns, exc, server, drain>>

\* HTTPConnection.close called on a connection whose sock.close() raises, or
\* whose sock is already None: the call counted, nothing else changed
close_failed(c) == [c EXCEPT !.close_calls = @ + 1]

\* ClientSession.__aexit__, lines 262-263: the next connection closed
AExitClose ==
    /\ pc = "aexit"
    /\ Get(frame).i <= Len(open_connections)
    /\ LET c == open_connections[Get(frame).i]
       IN  /\ conns[c].sock = "open"
           /\ conns' = [conns EXCEPT ![c] = closed(@)]
    /\ frame' = Some([i |-> Get(frame).i + 1])
    /\ UNCHANGED <<pc, call, prepared, url, new_url, response, history,
                   open_connections, exc, server, drain>>

\* ClientSession.__aexit__, lines 262-263, and HTTPConnection.close, line 173:
\* self.sock.close() raises (OSError from the socket, AttributeError when sock
\* is None after an earlier close) and the exception leaves the loop
AExitCloseFails ==
    /\ pc = "aexit"
    /\ Get(frame).i <= Len(open_connections)
    /\ LET c == open_connections[Get(frame).i]
       IN  /\ conns' = [conns EXCEPT ![c] = close_failed(@)]
           /\ exc' = IF conns[c].sock = "None" THEN Error("AttributeError")
                     ELSE Error("OSError")
    /\ pc' = "exited"
    /\ UNCHANGED <<call, prepared, frame, url, new_url, response, history,
                   open_connections, server, drain>>

\* ClientSession.__aexit__: the loop is over, the scope is left
AExitDone ==
    /\ pc = "aexit"
    /\ Get(frame).i > Len(open_connections)
    /\ pc' = "exited"
    /\ UNCHANGED <<call, prepared, frame, url, new_url, response, history,
                   open_connections, conns, exc, server, drain>>

Next ==
    \/ CallRequest
    \/ Open
    \/ SendRequest
    \/ SendData
    \/ SendEndOfMessage
    \/ ReceiveResponse
    \/ SendFails
    \/ ReceiveFails
    \/ FollowRedirect
    \/ Return
    \/ RaiseForStatus
    \/ UserClose
    \/ ExitScope
    \/ AExitClose
    \/ AExitCloseFails
    \/ AExitDone

Spec == Init /\ [][Next]_vars

----------------------------------------------------------------------------
(* C2 .. C8: the redirect loop, the scope exit, the status checks *)

\* the positions of ClientSession._request
InRequest == pc \in {"open", "send_request", "send_data", "send_eom", "next_event"}

\* the response head the peer sent on the k-th connection opened
WireOf(k) == Get(conns[open_connections[k]].wire)

\* whether the peer sent a location header, in whatever case
SentLocation(w) == \E i \in 1..Len(w.headers) : w.headers[i][1] \in LocationNames

\* C2: when ClientSession.request returns with allow_redirects=True, the
\* response is not a redirect, and its history holds the redirect responses
\* received before it, oldest first, one per hop taken.
C2_HistoryOfRedirects ==
    (pc = "returned" /\ call.allow_redirects) =>
        LET r == Get(response)
            n == Len(open_connections)
        IN  /\ ~(r.status_code \in 301..399 /\ SentLocation(WireOf(n)))
            /\ r.conn = open_connections[n]
            /\ ~IsNone(r.history)
            /\ Len(Get(r.history)) = n - 1
            /\ \A k \in 1..(n - 1) :
                 LET h == Get(r.history)[k]
                 IN  /\ h.conn = open_connections[k]
                     /\ h.status_code = WireOf(k).status_code
                     /\ h.status_code \in 301..399 /\ SentLocation(WireOf(k))
                     /\ IsNone(h.history)

\* a response returned after two hops, and one returned after none
C2_Witness ==
    /\ pc = "returned" /\ call.allow_redirects
    /\ Len(Get(Get(response).history)) = 2
    /\ Get(Get(response).history)[1].conn = 1
    /\ Get(Get(response).history)[2].conn = 2

\* the path of a target: the segments before "?"
TargetPath(target) ==
    LET n == IF \E i \in 1..Len(target) : target[i] = "?"
             THEN (CHOOSE i \in 1..Len(target) : target[i] = "?") - 1
             ELSE Len(target)
    IN  [k \in 1..(n \div 2) |-> target[2 * k]]

\* the tokens of a target's query: what follows "?"
TargetRawQuery(target) ==
    IF \E i \in 1..Len(target) : target[i] = "?"
    THEN SubSeq(target, (CHOOSE i \in 1..Len(target) : target[i] = "?") + 1, Len(target))
    ELSE <<>>

\* the URL of the request that produced a response: the scheme and host of
\* its connection, the path and query of its target
RequestURLOf(r) ==
    URL(IF conns[r.conn].ssl THEN "https" ELSE "http", conns[r.conn].host,
        TargetPath(r.h11_request.target), TargetRawQuery(r.h11_request.target))

\* C3: at every hop of the redirect loop the location of the redirect
\* response is resolved against the URL of the request that produced that
\* response, not against the URL ClientSession.request was called with.
C3_ResolvedAgainstCurrent ==
    (InRequest /\ ~IsNone(new_url)) =>
        Get(new_url) = join(RequestURLOf(Get(response)),
                            dict_get(Get(response).headers, "location"))

\* C4: against a peer that answers every request with a redirect, the
\* requests of one call are bounded by the redirect cap: the first request
\* and at most RedirectCap hops.
C4_RedirectsCapped == Len(conns) <= RedirectCap + 1

\* C5: when the scope has been left, close has been called on every
\* connection of open_connections, also after a close that failed.
C5_AllClosedOnExit ==
    pc = "exited" =>
        \A k \in 1..Len(open_connections) : conns[open_connections[k]].close_calls >= 1

\* a step of response.raise_for_status()
RaiseForStatusStep ==
    /\ pc = "returned"
    /\ pc' = "checked" \/ (pc' = "aexit" /\ ~IsNone(exc'))

\* C6: raise_for_status raises HTTPError, carrying the response, for every
\* status in [400,600) and returns for every other status, leaving the
\* response and its connection as they were; ClientSession.request itself
\* never raises HTTPError.
C6_RaiseForStatus ==
    /\ []((InRequest \/ pc \in {"scope", "after_request", "returned"}) => IsNone(exc))
    /\ [][RaiseForStatusStep =>
            /\ response' = response /\ conns' = conns
            /\ IF Get(response).status_code \in 400..599
               THEN /\ pc' = "aexit"
                    /\ Get(exc').type = "HTTPError"
                    /\ Get(exc').response = response
               ELSE pc' = "checked" /\ IsNone(exc')]_vars

\* raise_for_status has raised for a 599 whose connection is still open
C6_Witness ==
    /\ pc = "aexit" /\ ~IsNone(exc) /\ Get(exc).type = "HTTPError"
    /\ Get(response).status_code = 599
    /\ conns[Get(response).conn].sock = "open"
    /\ conns[Get(response).conn].their = "SEND_BODY"

\* C7: is_redirect is true exactly when the status is in [301,400) and the
\* peer sent a location header, whatever the case of its name.
C7_IsRedirect ==
    ~IsNone(response) =>
        LET r == Get(response)
            w == Get(conns[r.conn].wire)
        IN  is_redirect(r) <=> (w.status_code \in 301..399 /\ SentLocation(w))

\* a 399 whose header the peer spelled LOCATION is a redirect
C7_Witness ==
    /\ ~IsNone(response)
    /\ is_redirect(Get(response))
    /\ Get(conns[Get(response).conn].wire) = Wire(399, <<<<"LOCATION", Ref(<<"q">>, TRUE)>>>>)

\* C8: with allow_redirects=False one request is issued on one connection
\* and the first response is returned as it is, a redirect included, with
\* no history.
C8_NoRedirectsFollowed ==
    ~call.allow_redirects =>
        /\ Len(conns) <= 1
        /\ IsNone(history) /\ IsNone(new_url)
        /\ pc = "returned" =>
             /\ open_connections = <<1>>
             /\ response = Some(Response(h11_Response(WireOf(1)),
                                         Get(prepared).h11_request, 1))
             /\ IsNone(Get(response).history)

\* a redirect returned as it is
C8_Witness ==
    /\ pc = "returned" /\ ~call.allow_redirects
    /\ Get(response).status_code = 302
    /\ dict_has(Get(response).headers, "location")
    /\ Len(conns) = 1

----------------------------------------------------------------------------
(* The response body: h11's reader, _next_event, _EventIterator, binary, text, json *)

\* line 188: the read size when maxsize is not given
DefaultMaxsize == 2048

\* the bytes n, u, l and 1 of a body
Bytes == {110, 117, 108, 49}

\* the character of an ASCII byte
Chr(b) == CASE b = 110 -> "n" [] b = 117 -> "u" [] b = 108 -> "l" [] OTHER -> "1"

\* data.decode(encoding) for an encoding that maps ASCII bytes to themselves
decode(data) == [i \in 1..Len(data) |-> Chr(data[i])]

RECURSIVE int_of(_)
\* the number written by a string of digits 1
int_of(digits) ==
    IF digits = <<>> THEN 0 ELSE 10 * int_of(SubSeq(digits, 1, Len(digits) - 1)) + 1

\* json.loads(text): null is None, a number is itself, anything else does
\* not parse
json_loads(text) ==
    IF text = <<"n", "u", "l", "l">> THEN [raised |-> "", value |-> None]
    ELSE IF text # <<>> /\ \A i \in 1..Len(text) : text[i] = "1"
    THEN [raised |-> "", value |-> Some(int_of(text))]
    ELSE [raised |-> "ValueError", value |-> None]

\* the values of a Content-Type header: the media type, then its parameters
ContentTypes ==
    {<<"text/html", "charset", "utf-8">>, <<"text/plain">>, <<"application/json">>}

\* get_encoding_from_headers(headers), lines 27-38
get_encoding_from_headers(headers) ==
    IF ~dict_has(headers, "content-type") THEN None
    ELSE LET content_type == dict_get(headers, "content-type")
         IN  IF Len(content_type) >= 3 /\ content_type[2] = "charset"
             THEN Some(content_type[3])
             ELSE IF content_type[1] \in {"text/html", "text/plain"}
             THEN Some("ISO-8859-1")
             ELSE None

\* h11's next_event() on an open h11 connection: the event, with "NEED_DATA"
\* for h11.NEED_DATA and "RemoteProtocolError" for the exception raised, and
\* the connection after it. A body is framed by Content-Length (length >= 0
\* bytes still expected) or, with length < 0, by the close of the connection.
h11_next_event(c) ==
    IF c.their = "ERROR"
    THEN [event |-> Event("RemoteProtocolError", <<>>), conn |-> c]
    ELSE IF c.their = "SEND_BODY" /\ c.length = 0
    THEN [event |-> Event("EndOfMessage", <<>>), conn |-> [c EXCEPT !.their = "DONE"]]
    ELSE IF c.their = "SEND_BODY" /\ c.buf # <<>>
    THEN [event |-> Event("Data", c.buf),
          conn |-> [c EXCEPT !.buf = <<>>,
                             !.length = IF @ < 0 THEN @ ELSE @ - Len(c.buf)]]
    ELSE IF c.their = "SEND_BODY" /\ c.length < 0 /\ c.eof
    THEN [event |-> Event("EndOfMessage", <<>>), conn |-> [c EXCEPT !.their = "DONE"]]
    ELSE IF c.their \in {"SEND_RESPONSE", "SEND_BODY"} /\ c.eof
    THEN [event |-> Event("RemoteProtocolError", <<>>),
          conn |-> [c EXCEPT !.their = "ERROR"]]
    ELSE IF c.their \in {"DONE", "CLOSED"} /\ c.eof
    THEN [event |-> Event("ConnectionClosed", <<>>),
          conn |-> [c EXCEPT !.their = "CLOSED"]]
    ELSE [event |-> Event("NEED_DATA", <<>>), conn |-> c]

\* _next_event, line 191: self.state.next_event(); after close self.state is
\* None and the attribute access raises
state_next_event(c) ==
    IF c.their = "None"
    THEN [event |-> Event("AttributeError", <<>>), conn |-> c]
    ELSE h11_next_event(c)

\* whether line 191 raised instead of giving an event
raises(event) == event.type \in {"AttributeError", "RemoteProtocolError"}

\* line 195 with the test always false: every event is returned
needs_read_never(event) == FALSE

\* _next_event, line 195: if event is h11.NEED_DATA
needs_read(event) == event.type = "NEED_DATA"

\* lines 196-198 with an empty read skipped instead of fed to h11
fed_unless_empty(c, data) == [c EXCEPT !.buf = @ \o data]

\* _next_event, line 198: self.state.receive_data(data); b"" tells h11 that
\* the peer has closed
fed(c, data) ==
    IF data = <<>> THEN [c EXCEPT !.eof = TRUE] ELSE [c EXCEPT !.buf = @ \o data]

\* lines 52-57 with the last branch yielding the event's data
anext_yield_unknown(event) ==
    IF event.type = "EndOfMessage" THEN "stop" ELSE "yield"

\* _EventIterator.__anext__, lines 52-57: what becomes of the event
anext(event) ==
    CASE event.type = "Data" -> "yield"
      [] event.type = "EndOfMessage" -> "stop"
      [] OTHER -> "ValueError"

\* lines 187-188: the read size of _next_event(maxsize)
read_size(maxsize) ==
    IF IsNone(maxsize) \/ Get(maxsize) = 0 THEN DefaultMaxsize ELSE Get(maxsize)

\* lines 117-120 with every chunk replacing the data
accumulate_last(data, chunk) == Some(chunk)

\* Response.binary, lines 117-120: the first chunk, or the chunk added
accumulate(data, chunk) == IF IsNone(data) THEN Some(chunk) ELSE Some(Get(data) \o chunk)

\* what a body accessor gave: the exception raised, or the value returned
Outcome(raised, value) == [raised |-> raised, value |-> value]

\* Response.text without lines 127-128: None is decoded like bytes
text_of_unchecked(r, data) ==
    IF IsNone(get_encoding_from_headers(r.headers)) THEN Outcome("TypeError", None)
    ELSE IF IsNone(data) THEN Outcome("AttributeError", None)
    ELSE Outcome("", Some(decode(Get(data))))

\* Response.text, lines 126-132, once binary() has returned data
text_of(r, data) ==
    IF IsNone(data) THEN Outcome("", None)
    ELSE LET encoding == get_encoding_from_headers(r.headers)
         IN  IF IsNone(encoding) THEN Outcome("TypeError", None)
             ELSE Outcome("", Some(decode(Get(data))))

\* Response.json, lines 136-140, once binary() has returned data
json_of(r, data) ==
    IF IsNone(data) THEN Outcome("", None)
    ELSE json_loads(decode(Get(data)))

\* what the consumer returns when the iteration stops: the caller's own
\* concatenation for iter_chunked, else lines 122, 126-132 or 136-140
finish(kind, r, d) ==
    CASE kind = "iter_chunked" -> Outcome("", Some(d.acc))
      [] kind = "binary" -> Outcome("", d.data)
      [] kind = "text" -> text_of(r, d.data)
      [] OTHER -> json_of(r, d.data)

----------------------------------------------------------------------------
(* SpecBody: the body of a received response is drained *)

\* what the task does with the responses it holds, one after the other and
\* each on its own connection: the body streamed and concatenated and then
\* the same body taken with binary(), or one of binary(), text(), json()
Plans == {<<"iter_chunked", "binary">>, <<"binary">>, <<"text">>, <<"json">>}

\* the maxsize given to iter_chunked
Maxsizes == {None, Some(1), Some(2)}

BodyURL == URL("http", "a.test", <<"x">>, <<>>)

\* a connection on which the request was sent and the response head w was
\* received, its body in flight
ConnWithHead(w, body) ==
    received_head(
        sent_event(sent_event(opened(HTTPConnection("a.test", 80, FALSE)), "Request"),
                   "EndOfMessage"),
        w, body)

\* no consumer yet
Idle(plan, maxsize) ==
    [plan |-> plan, maxsize |-> maxsize, k |-> 0,
     data |-> None, acc |-> <<>>, chunks |-> 0, results |-> <<>>]

\* one response per consumer has been returned by ClientSession.request, all
\* with the same head and the same body
InitBody ==
    /\ pc = "returned"
    /\ call = [NoCall EXCEPT !.url = BodyURL]
    /\ prepared = Some(_prepare_request("GET", BodyURL, <<>>, None, None))
    /\ frame = None /\ url = Some(BodyURL) /\ new_url = None /\ history = None
    /\ exc = None /\ server = "body"
    /\ \E plan \in Plans, body \in SeqUpTo(Bytes, MaxBody),
          h \in {<<>>} \cup {<<<<"Content-Type", t>>>> : t \in ContentTypes},
          maxsize \in Maxsizes :
         /\ plan # <<"text">> => h = <<<<"Content-Type", <<"application/json">>>>>>
         /\ plan[1] # "iter_chunked" => maxsize = None
         /\ conns = [k \in 1..Len(plan) |-> ConnWithHead(Wire(200, h), body)]
         /\ open_connections = [k \in 1..Len(plan) |-> k]
         /\ response = Some(Response(h11_Response(Wire(200, h)),
                                     Get(prepared).h11_request, 1))
         /\ drain = Some(Idle(plan, maxsize))

\* the consumer at work and its connection
Kind == Get(drain).plan[Get(drain).k]
\* the k-th consumer works on the k-th response; once there are more
\* consumers than responses, on the last response again
DrainConn ==
    open_connections[IF Get(drain).k <= Len(open_connections)
                     THEN Get(drain).k ELSE Len(open_connections)]

\* lines 111 and 116: iter_chunked(maxsize) for the caller's loop,
\* iter_chunked() for binary()
Maxsize == IF Kind = "iter_chunked" THEN Get(drain).maxsize ELSE None

\* the task turns to its next response: iter_chunked, binary, text or json
StartConsumer ==
    /\ pc = "returned"
    /\ ~IsNone(drain)
    /\ Get(drain).k < Len(Get(drain).plan)
    /\ drain' = Some([Get(drain) EXCEPT !.k = @ + 1, !.data = None, !.acc = <<>>,
                                        !.chunks = 0])
    /\ pc' = "anext"
    /\ UNCHANGED <<call, prepared, frame, url, new_url, response, history,
                   open_connections, conns, exc, server>>

\* _next_event, lines 191-196: h11 has no event yet
NextEventNeedData ==
    /\ pc = "anext"
    /\ LET ne == state_next_event(conns[DrainConn])
       IN  ~raises(ne.event) /\ needs_read(ne.event)
    /\ pc' = "recv"
    /\ UNCHANGED <<call, prepared, frame, url, new_url, response, history,
                   open_connections, conns, exc, server, drain>>

\* _next_event, lines 196-198: one read of at most maxsize bytes, fed to h11
Recv ==
    /\ pc = "recv"
    /\ LET c == conns[DrainConn]
           m == read_size(Maxsize)
       IN  \E n \in 1..(IF m < Len(c.inbox) THEN m ELSE Len(c.inbox)) :
             conns' = [conns EXCEPT ![DrainConn] =
                         fed([c EXCEPT !.inbox = SubSeq(@, n + 1, Len(@))],
                             SubSeq(c.inbox, 1, n))]
    /\ pc' = "anext"
    /\ UNCHANGED <<call, prepared, frame, url, new_url, response, history,
                   open_connections, exc, server, drain>>

\* _next_event, line 200, __anext__, lines 52-53, and the loop body: of the
\* caller (the chunk appended to its bytes) or of binary, lines 117-120
NextEventData ==
    /\ pc = "anext"
    /\ LET ne == state_next_event(conns[DrainConn])
       IN  /\ ~raises(ne.event) /\ ~needs_read(ne.event)
           /\ anext(ne.event) = "yield"
           /\ conns' = [conns EXCEPT ![DrainConn] = [ne.conn EXCEPT !.got = Append(@, ne.event)]]
           /\ drain' = Some(IF Kind = "iter_chunked"
                            THEN [Get(drain) EXCEPT !.acc = @ \o ne.event.data,
                                                    !.chunks = @ + 1]
                            ELSE [Get(drain) EXCEPT
                                     !.data = accumulate(@, ne.event.data)])
    /\ UNCHANGED <<pc, call, prepared, frame, url, new_url, response, history,
                   open_connections, exc, server>>

\* _next_event, line 200, __anext__, lines 54-55: StopAsyncIteration ends the
\* loop and the consumer returns
NextEventEnd ==
    /\ pc = "anext"
    /\ LET ne == state_next_event(conns[DrainConn])
       IN  /\ ~raises(ne.event) /\ ~needs_read(ne.event)
           /\ anext(ne.event) = "stop"
           /\ conns' = [conns EXCEPT ![DrainConn] = [ne.conn EXCEPT !.got = Append(@, ne.event)]]
           /\ drain' = Some([Get(drain) EXCEPT !.results =
                               Append(@, finish(Kind, Get(response), Get(drain)))])
    /\ pc' = "returned"
    /\ UNCHANGED <<call, prepared, frame, url, new_url, response, history,
                   open_connections, exc, server>>

NextBody ==
    \/ StartConsumer
    \/ NextEventNeedData
    \/ Recv
    \/ NextEventData
    \/ NextEventEnd

SpecBody == InitBody /\ [][NextBody]_vars

----------------------------------------------------------------------------
(* C9, C10 *)

\* every consumer of the plan has returned
Drained ==
    /\ pc = "returned" /\ ~IsNone(drain)
    /\ Len(Get(drain).results) = Len(Get(drain).plan)

RECURSIVE DataPayloads(_)
\* the payloads of the Data events among a sequence of events, in order
DataPayloads(events) ==
    IF events = <<>> THEN <<>>
    ELSE (IF Head(events).type = "Data" THEN <<Head(events).data>> ELSE <<>>)
         \o DataPayloads(Tail(events))

\* an accessor returned None
ReturnedNone(o) == o.raised = "" /\ IsNone(o.value)

\* C9 as stated: for the same body, whatever the chunks and the read size,
\* the concatenation of the chunks of iter_chunked and the value of
\* binary() are the same bytes, the empty body included.
C9_StreamEqualsBinary ==
    (Drained /\ Get(drain).plan = <<"iter_chunked", "binary">>) =>
        Get(drain).results[2].value = Get(drain).results[1].value

\* C9, amended: they are the same bytes when the body has at least one
\* byte; for the empty body the concatenation is empty and binary() is None.
C9_StreamEqualsBinaryUnlessEmpty ==
    (Drained /\ Get(drain).plan = <<"iter_chunked", "binary">>) =>
        LET streamed == Get(Get(drain).results[1].value)
        IN  /\ Get(drain).results[2].raised = ""
            /\ Get(drain).results[2].value =
                 IF streamed = <<>> THEN None ELSE Some(streamed)

\* the same four bytes streamed in three chunks and taken by binary() in two
C9_Witness ==
    /\ Drained /\ Get(drain).plan = <<"iter_chunked", "binary">>
    /\ Len(DataPayloads(conns[1].got)) = 3
    /\ Len(DataPayloads(conns[2].got)) = 2
    /\ Get(drain).results[2].value = Some(<<110, 117, 108, 108>>)

\* C10 as stated: binary() returns None exactly when no Data event came
\* before EndOfMessage and else the payloads concatenated in arrival order;
\* text() and json() return None in exactly that case.
C10_NoneIffNoData ==
    (Drained /\ Len(Get(drain).plan) = 1) =>
        LET payloads == DataPayloads(conns[1].got)
            o == Get(drain).results[1]
        IN  IF Get(drain).plan[1] = "binary"
            THEN o = Outcome("", IF payloads = <<>> THEN None ELSE Some(Concat(payloads)))
            ELSE ReturnedNone(o) <=> payloads = <<>>

\* C10, amended: as stated for binary() and text(); json() returns None in
\* that case and, besides it, only when the body is the JSON text null.
C10_NoneIffNoDataOrNull ==
    (Drained /\ Len(Get(drain).plan) = 1) =>
        LET payloads == DataPayloads(conns[1].got)
            o == Get(drain).results[1]
        IN  CASE Get(drain).plan[1] = "binary" ->
                   o = Outcome("", IF payloads = <<>> THEN None ELSE Some(Concat(payloads)))
              [] Get(drain).plan[1] = "text" ->
                   ReturnedNone(o) <=> payloads = <<>>
              [] OTHER ->
                   ReturnedNone(o) <=>
                       (payloads = <<>> \/ Concat(payloads) = <<110, 117, 108, 108>>)

\* json() has returned None for the body null that came in two chunks
C10_Witness ==
    /\ Drained /\ Get(drain).plan = <<"json">>
    /\ DataPayloads(conns[1].got) = <<<<110, 117>>, <<108, 108>>>>
    /\ ReturnedNone(Get(drain).results[1])

----------------------------------------------------------------------------
(* C11 .. C20 *)

\* C17: whenever _prepare_request is given a body and the caller's headers do
\* not set Transfer-Encoding, the Content-Length header is the number of bytes
\* of the UTF-8 encoded body; without a body no Content-Length is added.
C17_ContentLengthIsByteLength ==
    pc = "prepared" =>
        LET h == Get(prepared).h11_request.headers
            caller == IF IsNone(call.headers) THEN <<>> ELSE Get(call.headers)
        IN  /\ (~IsNone(call.data) /\ ~dict_has(caller, "Transfer-Encoding")) =>
                   /\ dict_has(h, "Content-Length")
                   /\ dict_get(h, "Content-Length") = Len(Get(Get(prepared).body))
            /\ IsNone(call.data) => ~dict_has(h, "Content-Length")

\* C11: after a first successful close of a connection, a further call of
\* close on it raises no error and leaves the connection closed.
C11_CloseIdempotent ==
    \A c \in 1..Len(conns) :
        conns[c].close_calls >= 2 => (IsNone(exc) /\ conns[c].sock = "None")

\* the number of redirect hops behind a response returned
Hops(r) == IF IsNone(r.history) THEN 0 ELSE Len(Get(r.history))

\* the number of events of a type in a log
CountOf(log, type) == Cardinality({i \in 1..Len(log) : log[i] = type})

\* C19: every request of a session, each redirect hop included, has its own
\* connection, created and opened for it and carrying one exchange; a
\* connection is appended to open_connections only once opened and is never
\* removed, so a request returned after k hops has added k+1 entries, in the
\* order of issue.
C19_OneConnectionPerRequest ==
    /\ [](/\ \A k \in 1..Len(open_connections) :
                /\ open_connections[k] = k
                /\ conns[k].sock # "unset"
          /\ \A c \in 1..Len(conns) :
                /\ CountOf(conns[c].sent, "Request") <= 1
                /\ Len(conns[c].got) <= 1
          /\ pc = "returned" =>
                /\ Len(open_connections) = Hops(Get(response)) + 1
                /\ Get(response).conn = Len(open_connections)
                /\ \A k \in 1..Hops(Get(response)) :
                      Get(Get(response).history)[k].conn = k)
    /\ [][/\ Len(open_connections') >= Len(open_connections)
          /\ SubSeq(open_connections', 1, Len(open_connections)) = open_connections]_vars

\* a request has returned after two redirect hops
C19_Witness ==
    /\ pc = "returned"
    /\ Hops(Get(response)) = 2
    /\ Len(open_connections) = 3

\* a step of a request has failed: a connection was opened, its request is
\* no longer running and no response head was decoded on it
RequestFailed ==
    /\ ~InRequest
    /\ \E c \in 1..Len(conns) : conns[c].sock # "unset" /\ IsNone(conns[c].wire)

\* C13: whatever step fails after a connection's open succeeded, the
\* connection is tracked in open_connections and, once the scope has exited,
\* close has been called on it; a failure while chasing redirects returns no
\* response.
C13_FailedRequestsClosed ==
    /\ \A c \in 1..Len(conns) :
          conns[c].sock # "unset" => \E k \in 1..Len(open_connections) : open_connections[k] = c
    /\ RequestFailed => pc \in {"aexit", "exited"}
    /\ (RequestFailed /\ pc = "exited") =>
          \A c \in 1..Len(conns) : conns[c].sock # "unset" => conns[c].close_calls >= 1

----------------------------------------------------------------------------
(* SpecStream: one exchange on one connection, from the first _send to the
   consumers of the body, with a peer that may close and a caller that may
   close the connection and consume the body twice *)

\* the number of empty reads after which the model stops counting
MaxEmptyReads == 2

\* two consumers, one after the other, on the same response
StreamPlans ==
    {<<"iter_chunked", "iter_chunked">>, <<"binary", "binary">>,
     <<"iter_chunked", "binary">>}

StreamMaxsizes == {None, Some(1)}

\* a request without a body and one with a body
StreamCalls ==
    {[NoCall EXCEPT !.url = BodyURL],
     [NoCall EXCEPT !.url = BodyURL, !.method = "POST", !.data = Some(<<"a">>)]}

\* ClientSession._request up to line 277: the request prepared, the
\* connection opened and tracked
InitStream ==
    /\ pc = "send_request"
    /\ call \in StreamCalls
    /\ prepared = Some(_prepare_request(call.method, call.url, call.params,
                                        call.headers, call.data))
    /\ conns = <<opened(HTTPConnection("a.test", 80, FALSE))>>
    /\ open_connections = <<1>>
    /\ frame = Some([url |-> BodyURL, conn |-> 1])
    /\ url = Some(BodyURL) /\ new_url = None /\ response = None /\ history = None
    /\ exc = None /\ server = "stream"
    /\ \E plan \in StreamPlans, maxsize \in StreamMaxsizes :
         /\ plan[1] # "iter_chunked" => maxsize = None
         /\ drain = Some(Idle(plan, maxsize))

\* HTTPConnection.request, line 210, and _next_event, lines 191-196: no
\* response head yet, the task reads
StreamHeadNeedData ==
    /\ pc = "next_event"
    /\ LET ne == state_next_event(conns[1])
       IN  ~raises(ne.event) /\ needs_read(ne.event)
    /\ pc' = "recv_head"
    /\ UNCHANGED <<call, prepared, frame, url, new_url, response, history,
                   open_connections, conns, exc, server, drain>>

\* the body of n bytes that a peer sends
BodyOf(n) == [i \in 1..n |-> 110]

\* lines 196-200 and 210-214, ClientSession._request, line 281: the read
\* brings the response head, h11 decodes it and the Response is returned. The
\* head announces `length` body bytes, or a body that ends with the
\* connection (length -1); the peer sends n of them and then keeps the
\* connection open or closes it.
StreamRecvHead ==
    /\ pc = "recv_head"
    /\ ~conns[1].peer_closed
    /\ \E length \in -1..MaxBody, n \in 0..MaxBody, closes \in BOOLEAN :
         /\ length >= 0 => n <= length
         /\ length < 0 => closes
         /\ conns' = [conns EXCEPT ![1] =
                         [received_head(@, Wire(200, <<>>), BodyOf(n))
                            EXCEPT !.length = length, !.peer_closed = closes]]
    /\ response' = Some(Response(h11_Response(Wire(200, <<>>)),
                                 Get(prepared).h11_request, 1))
    /\ pc' = "returned"
    /\ UNCHANGED <<call, prepared, frame, url, new_url, history, open_connections,
                   exc, server, drain>>

\* lines 196-198: the peer has closed before any response head, the read
\* returns b"" and h11 is told
StreamRecvHeadEOF ==
    /\ pc = "recv_head"
    /\ conns[1].empty_reads < MaxEmptyReads
    /\ conns' = [conns EXCEPT ![1] =
                    fed([@ EXCEPT !.peer_closed = TRUE, !.empty_reads = @ + 1], <<>>)]
    /\ pc' = "next_event"
    /\ UNCHANGED <<call, prepared, frame, url, new_url, response, history,
                   open_connections, exc, server, drain>>

\* line 191 raises inside HTTPConnection.request: no response is returned
StreamHeadRaises ==
    /\ pc = "next_event"
    /\ LET ne == state_next_event(conns[1])
       IN  /\ raises(ne.event)
           /\ conns' = [conns EXCEPT ![1] = ne.conn]
           /\ exc' = Error(ne.event.type)
    /\ pc' = "raised"
    /\ UNCHANGED <<call, prepared, frame, url, new_url, response, history,
                   open_connections, server, drain>>

\* the connection of the response is closed before the body is accessed (or
\* accessed again): by the caller, or by the scope exit of tests.py, lines
\* 18-25, where the response outlives the session
StreamClose ==
    /\ pc = "returned"
    /\ conns[1].sock = "open"
    /\ conns' = [conns EXCEPT ![1] = closed(@)]
    /\ UNCHANGED <<pc, call, prepared, frame, url, new_url, response, history,
                   open_connections, exc, server, drain>>

\* _next_event, lines 196-198: the peer has closed, the read returns b"" and
\* h11 is told
RecvEOF ==
    /\ pc = "recv"
    /\ LET c == conns[DrainConn]
       IN  /\ c.inbox = <<>> /\ c.peer_closed
           /\ c.empty_reads < MaxEmptyReads
           /\ conns' = [conns EXCEPT ![DrainConn] =
                           fed([c EXCEPT !.empty_reads = @ + 1], <<>>)]
    /\ pc' = "anext"
    /\ UNCHANGED <<call, prepared, frame, url, new_url, response, history,
                   open_connections, exc, server, drain>>

\* the consumer ends with an exception
failed(d, type) == [d EXCEPT !.results = Append(@, Outcome(type, None))]

\* _next_event, line 191, raises: the exception leaves __anext__ and the
\* consumer
NextEventRaises ==
    /\ pc = "anext"
    /\ LET ne == state_next_event(conns[DrainConn])
       IN  /\ raises(ne.event)
           /\ conns' = [conns EXCEPT ![DrainConn] = ne.conn]
           /\ exc' = Error(ne.event.type)
           /\ drain' = Some(failed(Get(drain), ne.event.type))
    /\ pc' = "raised"
    /\ UNCHANGED <<call, prepared, frame, url, new_url, response, history,
                   open_connections, server>>

\* _next_event, line 200, __anext__, lines 56-57: an event that is neither
\* Data nor EndOfMessage raises ValueError
NextEventUnknown ==
    /\ pc = "anext"
    /\ LET ne == state_next_event(conns[DrainConn])
       IN  /\ ~raises(ne.event) /\ ~needs_read(ne.event)
           /\ anext(ne.event) = "ValueError"
           /\ conns' = [conns EXCEPT ![DrainConn] = [ne.conn EXCEPT !.got = Append(@, ne.event)]]
           /\ exc' = Error("ValueError")
           /\ drain' = Some(failed(Get(drain), "ValueError"))
    /\ pc' = "raised"
    /\ UNCHANGED <<call, prepared, frame, url, new_url, response, history,
                   open_connections, server>>

NextStream ==
    \/ SendRequest
    \/ SendData
    \/ SendEndOfMessage
    \/ StreamHeadNeedData
    \/ StreamRecvHead
    \/ StreamRecvHeadEOF
    \/ StreamHeadRaises
    \/ StreamClose
    \/ StartConsumer
    \/ NextEventNeedData
    \/ Recv
    \/ RecvEOF
    \/ NextEventData
    \/ NextEventEnd
    \/ NextEventRaises
    \/ NextEventUnknown

SpecStream == InitStream /\ [][NextStream]_vars

----------------------------------------------------------------------------
(* C12, C14, C15, C16, C18: one exchange under SpecStream *)

\* the exception that is propagating, "" if none
Raised == IF IsNone(exc) THEN "" ELSE Get(exc).type

\* the peer still owes bytes of a message: the response head, or body bytes
\* that its Content-Length announced
Incomplete(c) == IsNone(c.wire) \/ c.length > 0

\* the types of the events that _next_event has returned on the connection
GotTypes(c) == [i \in 1..Len(c.got) |-> c.got[i].type]

\* C12: if the peer closes (a read returns zero bytes) while _next_event waits
\* for data that completes a message, _next_event raises right after that
\* read: it does not read again and returns no event.
C12_PeerCloseRaises ==
    /\ [](/\ conns[1].empty_reads <= 1
          /\ (conns[1].empty_reads = 1 /\ Incomplete(conns[1])) =>
                /\ pc \in {"next_event", "anext", "raised"}
                /\ pc = "raised" => Raised = "RemoteProtocolError")
    /\ [][(/\ conns[1].empty_reads = 1 /\ Incomplete(conns[1])
           /\ pc \in {"next_event", "anext"}) =>
              /\ pc' = "raised"
              /\ conns'[1].got = conns[1].got
              /\ response' = response]_vars

\* the peer closed in the middle of a body and the consumer has raised
C12_Witness ==
    /\ pc = "raised" /\ Raised = "RemoteProtocolError"
    /\ conns[1].empty_reads = 1
    /\ conns[1].length > 0
    /\ GotTypes(conns[1]) = <<"Response", "Data">>

\* the events the claim expects for the caller's request: a Data event
\* exactly when the caller gave a body
ExpectedSends ==
    IF IsNone(call.data) THEN <<"Request", "EndOfMessage">>
    ELSE <<"Request", "Data", "EndOfMessage">>

\* C14: on one connection, request sends the request head, then one Data
\* event exactly when there is a body, then EndOfMessage, one after the
\* other; nothing is read before EndOfMessage is sent, the body is sent in
\* h11's SEND_BODY state, and body events are consumed only after the
\* response head was decoded.
C14_RequestOrder ==
    /\ [](LET c == conns[1]
          IN  /\ Len(c.sent) <= Len(ExpectedSends)
              /\ c.sent = SubSeq(ExpectedSends, 1, Len(c.sent))
              /\ (\/ pc \in {"recv_head", "recv"} \/ c.got # <<>>
                  \/ c.empty_reads > 0 \/ c.buf # <<>>) => c.sent = ExpectedSends
              /\ \A i \in 1..Len(c.got) :
                    c.got[i].type \in {"Data", "EndOfMessage"} =>
                        i > 1 /\ c.got[1].type = "Response")
    /\ [][(/\ Len(conns'[1].sent) > Len(conns[1].sent)
           /\ conns'[1].sent[Len(conns'[1].sent)] = "Data") =>
              conns[1].our = "SEND_BODY"]_vars

\* a request with a body was sent and the response body was consumed
C14_Witness ==
    /\ conns[1].sent = <<"Request", "Data", "EndOfMessage">>
    /\ GotTypes(conns[1]) = <<"Response", "Data", "EndOfMessage">>

\* the body stream of the connection has ended on EndOfMessage
Ended(c) == \E i \in 1..Len(c.got) : c.got[i].type = "EndOfMessage"

\* C15: once the body stream of a response has ended on EndOfMessage, a
\* second consumer gets an empty sequence or an error, and performs no
\* further read on the socket.
C15_NoReadAfterEnd ==
    (~IsNone(drain) /\ Get(drain).k = 2 /\ Ended(conns[1])) =>
        /\ pc # "recv"
        /\ Len(Get(drain).results) = 2 =>
              \/ Get(drain).results[2].raised # ""
              \/ Get(drain).results[2].value \in {None, Some(<<>>)}

\* C16: after the connection of a response has been closed, a body access
\* raises and reads nothing from the socket, and the status code, the HTTP
\* version and the headers of the response stay as they were.
C16_ClosedBodyAccessFaults ==
    /\ [](conns[1].sock = "None" =>
             /\ pc \in {"returned", "anext", "raised"}
             /\ pc = "raised" => Raised = "AttributeError"
             /\ LET raw == h11_Response(Get(conns[1].wire))
                IN  /\ Get(response).status_code = raw.status_code
                    /\ Get(response).http_version = raw.http_version
                    /\ Get(response).headers = dict_from(raw.headers))
    /\ [][conns[1].sock = "None" =>
             /\ response' = response
             /\ conns' = conns
             /\ pc = "anext" => pc' = "raised"]_vars

\* the connection was closed with body bytes unread, and the body access
\* that followed has raised
C16_Witness ==
    /\ conns[1].sock = "None"
    /\ conns[1].inbox # <<>>
    /\ pc = "raised" /\ Raised = "AttributeError"
    /\ Len(Get(drain).results) = 1

\* C18: while a body is iterated, each Data event yields its payload as the
\* next chunk, EndOfMessage ends the iteration, any other event raises
\* instead of being yielded or skipped, and NEED_DATA is never returned by
\* _next_event.
C18_EventsToChunks ==
    LET c == conns[1]
        d == Get(drain)
        types == GotTypes(c)
    IN  /\ \A i \in 1..Len(types) :
              types[i] \in {"Response", "Data", "EndOfMessage", "ConnectionClosed"}
        /\ (d.k = 1 /\ d.plan[1] = "iter_chunked") =>
              /\ d.acc = Concat(DataPayloads(c.got))
              /\ d.chunks = Len(DataPayloads(c.got))
        /\ (d.k = 1 /\ types # <<>> /\ types[Len(types)] = "EndOfMessage") =>
              /\ pc = "returned"
              /\ Len(d.results) = 1 /\ d.results[1].raised = ""
        /\ (types # <<>> /\ types[Len(types)] \notin {"Response", "Data", "EndOfMessage"}) =>
              /\ pc = "raised" /\ Raised = "ValueError"
              /\ d.results[Len(d.results)] = Outcome("ValueError", None)

\* the body was streamed to its end; the peer then closed, and the second
\* iteration got h11's ConnectionClosed event and raised
C18_Witness ==
    /\ GotTypes(conns[1]) = <<"Response", "Data", "Data", "EndOfMessage", "ConnectionClosed">>
    /\ Get(drain).plan = <<"iter_chunked", "iter_chunked">>
    /\ pc = "raised" /\ Raised = "ValueError"

----------------------------------------------------------------------------
(* SpecTasks: two tasks of one curio kernel iterate the body of the same
   response, hence call _next_event on the same connection. A task runs
   until it is suspended in sock.recv; pc gives each task's position. *)

Tasks == {1, 2}

\* a task that has not started its iteration
IdleTask == [acc |-> <<>>, chunks |-> 0, raised |-> ""]

\* ClientSession.request has returned a response; its body is in flight and
\* the peer keeps the connection open after it or closes
InitTasks ==
    /\ pc = [t \in Tasks |-> "idle"]
    /\ call = [NoCall EXCEPT !.url = BodyURL]
    /\ prepared = Some(_prepare_request("GET", BodyURL, <<>>, None, None))
    /\ frame = None /\ url = Some(BodyURL) /\ new_url = None /\ history = None
    /\ exc = None /\ server = "tasks"
    /\ \E n \in 0..MaxBody, closes \in BOOLEAN :
         conns = <<[ConnWithHead(Wire(200, <<>>), BodyOf(n)) EXCEPT !.peer_closed = closes]>>
    /\ open_connections = <<1>>
    /\ response = Some(Response(h11_Response(Wire(200, <<>>)), Get(prepared).h11_request, 1))
    /\ \E maxsize \in StreamMaxsizes :
         drain = Some([maxsize |-> maxsize, tasks |-> [t \in Tasks |-> IdleTask]])

\* no other task is running: each is idle, suspended in sock.recv or finished
OthersSuspended(t) == \A u \in Tasks \ {t} : pc[u] # "anext"

\* another task is suspended in sock.recv on the connection
OtherReads(t) == \E u \in Tasks \ {t} : pc[u] = "recv"

\* the task is scheduled and begins `async for chunk in response.iter_chunked(maxsize)`
TaskStart(t) ==
    /\ pc[t] = "idle"
    /\ OthersSuspended(t)
    /\ pc' = [pc EXCEPT ![t] = "anext"]
    /\ UNCHANGED <<call, prepared, frame, url, new_url, response, history,
                   open_connections, conns, exc, server, drain>>

\* _next_event, lines 191-196: NEED_DATA, the task awaits sock.recv. Nothing
\* in _next_event looks for another task that is already reading: the task
\* is suspended beside it, or the curio kernel refuses the second reader of
\* the socket and recv raises.
TaskNeedData(t) ==
    /\ pc[t] = "anext"
    /\ LET ne == state_next_event(conns[1])
       IN  ~raises(ne.event) /\ needs_read(ne.event)
    /\ \/ /\ pc' = [pc EXCEPT ![t] = "recv"]
          /\ UNCHANGED <<exc, drain>>
       \/ /\ OtherReads(t) /\ conns[1].inbox = <<>>
          /\ pc' = [pc EXCEPT ![t] = "raised"]
          /\ exc' = Error("ReadResourceBusy")
          /\ drain' = Some([Get(drain) EXCEPT !.tasks[t].raised = "ReadResourceBusy"])
    /\ UNCHANGED <<call, prepared, frame, url, new_url, response, history,
                   open_connections, conns, server>>

\* _next_event, lines 196-198: the read of the task returns bytes, which are
\* fed to h11
TaskRecv(t) ==
    /\ pc[t] = "recv"
    /\ OthersSuspended(t)
    /\ LET c == conns[1]
           m == read_size(Get(drain).maxsize)
       IN  \E n \in 1..(IF m < Len(c.inbox) THEN m ELSE Len(c.inbox)) :
             conns' = [conns EXCEPT ![1] =
                         fed([c EXCEPT !.inbox = SubSeq(@, n + 1, Len(@))],
                             SubSeq(c.inbox, 1, n))]
    /\ pc' = [pc EXCEPT ![t] = "anext"]
    /\ UNCHANGED <<call, prepared, frame, url, new_url, response, history,
                   open_connections, exc, server, drain>>

\* _next_event, lines 196-198: the peer has closed, the read of the task
\* returns b""
TaskRecvEOF(t) ==
    /\ pc[t] = "recv"
    /\ OthersSuspended(t)
    /\ LET c == conns[1]
       IN  /\ c.inbox = <<>> /\ c.peer_closed
           /\ c.empty_reads < MaxEmptyReads
           /\ conns' = [conns EXCEPT ![1] = fed([c EXCEPT !.empty_reads = @ + 1], <<>>)]
    /\ pc' = [pc EXCEPT ![t] = "anext"]
    /\ UNCHANGED <<call, prepared, frame, url, new_url, response, history,
                   open_connections, exc, server, drain>>

\* _next_event, line 200, __anext__, lines 52-53: the chunk goes to the task
\* whose call decoded it
TaskData(t) ==
    /\ pc[t] = "anext"
    /\ LET ne == state_next_event(conns[1])
       IN  /\ ~raises(ne.event) /\ ~needs_read(ne.event)
           /\ anext(ne.event) = "yield"
           /\ conns' = [conns EXCEPT ![1] = [ne.conn EXCEPT !.got = Append(@, ne.event)]]
           /\ drain' = Some([Get(drain) EXCEPT !.tasks[t].acc = @ \o ne.event.data,
                                               !.tasks[t].chunks = @ + 1])
    /\ UNCHANGED <<pc, call, prepared, frame, url, new_url, response, history,
                   open_connections, exc, server>>

\* __anext__, lines 54-55: the iteration of the task ends
TaskEnd(t) ==
    /\ pc[t] = "anext"
    /\ LET ne == state_next_event(conns[1])
       IN  /\ ~raises(ne.event) /\ ~needs_read(ne.event)
           /\ anext(ne.event) = "stop"
           /\ conns' = [conns EXCEPT ![1] = [ne.conn EXCEPT !.got = Append(@, ne.event)]]
    /\ pc' = [pc EXCEPT ![t] = "done"]
    /\ UNCHANGED <<call, prepared, frame, url, new_url, response, history,
                   open_connections, exc, server, drain>>

\* line 191 raises, or __anext__ raises ValueError (lines 56-57)
TaskRaises(t) ==
    /\ pc[t] = "anext"
    /\ LET ne == state_next_event(conns[1])
           type == IF raises(ne.event) THEN ne.event.type ELSE "ValueError"
       IN  /\ raises(ne.event) \/ (~needs_read(ne.event) /\ anext(ne.event) = "ValueError")
           /\ conns' = [conns EXCEPT ![1] =
                           IF raises(ne.event) THEN ne.conn
                           ELSE [ne.conn EXCEPT !.got = Append(@, ne.event)]]
           /\ exc' = Error(type)
           /\ drain' = Some([Get(drain) EXCEPT !.tasks[t].raised = type])
    /\ pc' = [pc EXCEPT ![t] = "raised"]
    /\ UNCHANGED <<call, prepared, frame, url, new_url, response, history,
                   open_connections, server>>

NextTasks ==
    \/ \E t \in Tasks : TaskStart(t)
    \/ \E t \in Tasks : TaskNeedData(t)
    \/ \E t \in Tasks : TaskRecv(t)
    \/ \E t \in Tasks : TaskRecvEOF(t)
    \/ \E t \in Tasks : TaskData(t)
    \/ \E t \in Tasks : TaskEnd(t)
    \/ \E t \in Tasks : TaskRaises(t)

SpecTasks == InitTasks /\ [][NextTasks]_vars

\* the tasks that are inside _next_event: running it, or suspended in its read
InFlight == {t \in Tasks : pc[t] \in {"anext", "recv"}}

\* C20: on one connection at most one _next_event is in flight at any time:
\* a second task is rejected or waits until the first call has completed, so
\* two tasks are never both suspended in a read of the socket.
C20_OneInFlight ==
    /\ Cardinality(InFlight) <= 1
    /\ ~(\A t \in Tasks : pc[t] = "recv")

====
